---- MODULE Spec2Model ----
(***************************************************************************)
(* Model of the connection handler of rust-http (src/client.rs):           *)
(* Client::handle, Client::parse_request and Client::send_response, with   *)
(* the session store of server.rs behind its mutex.  Text is modelled as   *)
(* sequences of one-character strings so that the splitting, trimming and  *)
(* prefix tests of the parser are computed as the code computes them.      *)
(***************************************************************************)
EXTENDS Integers, Sequences, FiniteSets, TLC

\* ------------------------------------------------------------------ bounds
NumConns == 2
MaxHdrs == 2

\* -------------------------------------------------------------- text helpers
\* Option<T>: None, or Some(x)
None == <<>>
Some(x) == <<x>>
Get(o) == o[1]

CR == "\r"
LF == "\n"
CRLF == <<CR, LF>>
CRLFCRLF == <<CR, LF, CR, LF>>
SP == <<" ">>

\* char::is_whitespace restricted to the characters of the model
IsWhitespace(ch) == ch \in {" ", "\t", "\n", "\r", "\f"}

RECURSIVE Concat(_)
Concat(ss) == IF ss = <<>> THEN <<>> ELSE Head(ss) \o Concat(Tail(ss))

\* str::starts_with
StartsWith(s, p) == Len(s) >= Len(p) /\ SubSeq(s, 1, Len(p)) = p

Drop(s, n) == SubSeq(s, n + 1, Len(s))

\* position of the first occurrence of p in s, 0 when there is none
FirstIndex(s, p) ==
    LET hits == {i \in 1..(Len(s) - Len(p) + 1) : SubSeq(s, i, i + Len(p) - 1) = p}
    IN IF hits = {} THEN 0 ELSE CHOOSE i \in hits : \A j \in hits : i <= j

Contains(s, p) == FirstIndex(s, p) # 0

\* str::split(pattern): the pieces between non-overlapping occurrences of
\* the pattern, left to right; always at least one piece
RECURSIVE Split(_, _)
Split(s, p) ==
    LET i == FirstIndex(s, p)
    IN IF i = 0 THEN <<s>>
       ELSE <<SubSeq(s, 1, i - 1)>> \o Split(Drop(s, i + Len(p) - 1), p)

\* Iterator::nth / next with unwrap_or_default
Nth(pieces, n) == IF Len(pieces) > n THEN Some(pieces[n + 1]) ELSE None
NthOrEmpty(pieces, n) == IF Len(pieces) > n THEN pieces[n + 1] ELSE <<>>

StripSuffixCR(l) == IF Len(l) > 0 /\ l[Len(l)] = CR THEN SubSeq(l, 1, Len(l) - 1) ELSE l

\* str::lines: split_inclusive('\n'); a piece that ends in \n loses it and
\* then one \r before it; a last piece without \n is kept as it is
RECURSIVE Lines(_)
Lines(s) ==
    IF s = <<>> THEN <<>>
    ELSE LET i == FirstIndex(s, <<LF>>)
         IN IF i = 0 THEN <<s>>
            ELSE <<StripSuffixCR(SubSeq(s, 1, i - 1))>> \o Lines(Drop(s, i))

RECURSIVE TrimStart(_)
TrimStart(s) == IF s # <<>> /\ IsWhitespace(Head(s)) THEN TrimStart(Tail(s)) ELSE s

RECURSIVE TrimEnd(_)
TrimEnd(s) ==
    IF s # <<>> /\ IsWhitespace(s[Len(s)]) THEN TrimEnd(SubSeq(s, 1, Len(s) - 1)) ELSE s

\* str::trim
Trim(s) == TrimEnd(TrimStart(s))

\* length of the longest prefix of s without whitespace
RECURSIVE TokenLen(_)
TokenLen(s) == IF s = <<>> \/ IsWhitespace(Head(s)) THEN 0 ELSE 1 + TokenLen(Tail(s))

\* str::split_whitespace: the maximal runs of non-whitespace characters
RECURSIVE SplitWhitespace(_)
SplitWhitespace(s) ==
    LET t == TrimStart(s)
    IN IF t = <<>> THEN <<>>
       ELSE <<SubSeq(t, 1, TokenLen(t))>> \o SplitWhitespace(Drop(t, TokenLen(t)))

\* ------------------------------------------------------------ request parser
Cookie == <<"C", "o", "o", "k", "i", "e">>

\* variant: the prefix in lower case
IsCookieHeaderLower(h) == StartsWith(h, <<"c", "o", "o", "k", "i", "e">>)

IsCookieHeader(h) == StartsWith(h, Cookie)

\* variant: the first Cookie line that has an '=' is taken
FindCookieHeaderWithEq(headers) ==
    LET hits == {i \in 1..Len(headers) :
                    IsCookieHeader(headers[i]) /\ Contains(headers[i], <<"=">>)}
    IN IF hits = {} THEN None
       ELSE Some(headers[CHOOSE i \in hits : \A j \in hits : i <= j])

\* variant: only the first header line is looked at
FindCookieHeaderFirstOnly(headers) ==
    IF headers # <<>> /\ IsCookieHeader(headers[1]) THEN Some(headers[1]) ELSE None

\* _headers.iter().find(|h| h.starts_with("Cookie"))
FindCookieHeader(headers) ==
    LET hits == {i \in 1..Len(headers) : IsCookieHeader(headers[i])}
    IN IF hits = {} THEN None
       ELSE Some(headers[CHOOSE i \in hits : \A j \in hits : i <= j])

\* variant: nth(0), the segment before the first '='
CookieValueNth0(h) ==
    LET seg == Nth(Split(h, <<"=">>), 0)
    IN IF seg = None THEN None ELSE Some(Trim(Get(seg)))

\* h.split('=').nth(1).map(|c| c.trim().to_string())
CookieValue(h) ==
    LET seg == Nth(Split(h, <<"=">>), 1)
    IN IF seg = None THEN None ELSE Some(Trim(Get(seg)))

\* variant: the cookie is never extracted
ExtractCookieNone(headers) == None

ExtractCookie(headers) ==
    LET h == FindCookieHeader(headers)
    IN IF h = None THEN None ELSE CookieValue(Get(h))

HeaderPart(text) == NthOrEmpty(Split(text, CRLFCRLF), 0)
BodyPart(text) == NthOrEmpty(Split(text, CRLFCRLF), 1)

\* the HttpRequest parse_request builds from the text of the bytes read
ParsedRequest(text) ==
    LET header_lines == Lines(HeaderPart(text))
        request_parts == SplitWhitespace(NthOrEmpty(header_lines, 0))
        headers == IF header_lines = <<>> THEN <<>> ELSE Tail(header_lines)
    IN [method |-> NthOrEmpty(request_parts, 0), path |-> NthOrEmpty(request_parts, 1),
        headers |-> headers, body |-> BodyPart(text), cookie |-> ExtractCookie(headers)]

\* variant: the empty method is not rejected
ParseTextNoMethodCheck(text) ==
    IF HeaderPart(text) = <<>> THEN None ELSE Some(ParsedRequest(text))

\* variant: nothing is rejected
ParseTextNoValidation(text) == Some(ParsedRequest(text))

\* the part of parse_request after the read: the text of the bytes read
\* to an HttpRequest, or None
ParseText(text) ==
    IF HeaderPart(text) = <<>> THEN None
    ELSE IF ParsedRequest(text).method = <<>> THEN None
    ELSE Some(ParsedRequest(text))

\* a socket read: an error, or the bytes received (none when the peer closed)
ReadErr == [ok |-> FALSE, bytes |-> <<>>]
ReadOk(bytes) == [ok |-> TRUE, bytes |-> bytes]

parse_request(read) == IF ~read.ok THEN None ELSE ParseText(read.bytes)

\* ------------------------------------------------------------------- texts
GET == <<"G","E","T">>
POST == <<"P","O","S","T">>
PUT == <<"P","U","T">>
DELETE == <<"D","E","L","E","T","E">>
PATCH == <<"P","A","T","C","H">>
TRACE == <<"T","R","A","C","E">>
LowerGet == <<"g","e","t">>
HTTP11 == <<"H","T","T","P","/","1",".","1">>
RootPath == <<"/">>
GetPath == <<"/","g","e","t">>
HostLine == <<"H","o","s","t",":"," ","l","o","c","a","l","h","o","s","t">>
CookiePrefix == <<"C","o","o","k","i","e",":"," ","s","e","s","s","i","o","n","I","d","=">>
Id1234 == <<"1","2","3","4">>
UserData == <<"u","s","e","r","_","d","a","t","a">>
SetCookie == <<"S","e","t","-","C","o","o","k","i","e">>
SessionIdEq == <<"s","e","s","s","i","o","n","I","d","=">>
PathAttr == <<";"," ","P","a","t","h","=","/">>
ColonSp == <<":"," ">>
Status200 == <<"H","T","T","P","/","1",".","1"," ","2","0","0"," ","O","K">>
Status405 == <<"H","T","T","P","/","1",".","1"," ","4","0","5"," ","M","e","t","h","o","d"," ","N","o","t"," ","A","l","l","o","w","e","d">>
InvalidJson == <<"{","i","n","v","a","l","i","d"," ","j","s","o","n">>
EmptyObject == <<"{","}">>
OkBody == <<"o","k">>
ForeignCookie == <<"s","e","s","s","i","o","n","I","d","=","o","t","h","e","r">>
Digits == <<"0","1","2","3","4","5","6","7","8","9">>

CookieNoEq == <<"C","o","o","k","i","e">>
CookieTwoEq == <<"C","o","o","k","i","e",":"," ","s","e","s","s","i","o","n","I","d","=","a","b","=","c","d">>
CookieLower == <<"c","o","o","k","i","e",":"," ","s","e","s","s","i","o","n","I","d","=","1","2","3","4">>
CookieSpaced == <<"C","o","o","k","i","e",":"," ","s","e","s","s","i","o","n","I","d","="," ","1","2","3","4"," ">>
TwoPartBody == <<"a",CR,LF,CR,LF,"b">>

\* the wire format of a request (section 6 of the specification)
RequestText(method, path, hdrs, body) ==
    method \o SP \o path \o SP \o HTTP11
      \o Concat([i \in 1..Len(hdrs) |-> CRLF \o hdrs[i]]) \o CRLFCRLF \o body

CookieLine(id) == CookiePrefix \o id

\* ------------------------------------------------------------------- state
Conns == 1..NumConns

VARIABLES
    sessions,    \* Server.sessions: session id -> session data
    lock,        \* holder of the Mutex<Server>, or None
    pc,          \* position of each connection handler
    net,         \* what the socket read of the connection returned
    request,     \* the HttpRequest parse_request returned, or None
    pending,     \* id generated inside handle_cookie, not yet inserted
    session_id,  \* the id handle_cookie returned
    json_body,   \* the decoded body, or None
    called,      \* the route handler called and its arguments
    response,    \* the Response being built
    socket,      \* the text written to the socket, or None
    send_ok,     \* result of send_response
    stderr,      \* eprintln! lines of the connection
    stdout,      \* println! lines of the connection
    before,      \* keys of the store when the connection took the lock
    after,       \* keys of the store when the connection dropped the lock
    trace        \* the positions the connection went through

connVars == <<pc, net, request, pending, session_id, json_body, called,
              response, socket, send_ok, stderr, stdout, before, after, trace>>
vars == <<sessions, lock, connVars>>


\* ------------------------------------------------------------ session store
\* ids the store can generate
FreshId(n) == <<"s", Digits[n + 1]>>
IdPool == {FreshId(1), FreshId(2)}

DefaultData == <<>>

\* HashMap::insert
MapInsert(m, k, v) == [x \in DOMAIN m \cup {k} |-> IF x = k THEN v ELSE m[x]]

EmptyStore == [k \in {} |-> <<>>]
\* the store of test_client_handle
TestStore == MapInsert(EmptyStore, Id1234, UserData)

\* handle_cookie, lookup: the cookie names an existing session
KnownCookie(req, store) == req.cookie # None /\ Get(req.cookie) \in DOMAIN store

\* ------------------------------------------------------------------ router
\* variant: a lower-case get is routed like GET
DispatchLowerGet(method, path, body) ==
    CASE method \in {GET, LowerGet} -> [handler |-> "handle_get", args |-> <<path>>]
      [] method = POST -> [handler |-> "handle_post", args |-> <<path, body>>]
      [] method = PUT -> [handler |-> "handle_put", args |-> <<path, body>>]
      [] method = DELETE -> [handler |-> "handle_delete", args |-> <<path>>]
      [] method = PATCH -> [handler |-> "handle_patch", args |-> <<path, body>>]
      [] OTHER -> [handler |-> "handle_method_not_allowed", args |-> <<>>]

\* the match on request.method of Client::handle
Dispatch(method, path, body) ==
    CASE method = GET -> [handler |-> "handle_get", args |-> <<path>>]
      [] method = POST -> [handler |-> "handle_post", args |-> <<path, body>>]
      [] method = PUT -> [handler |-> "handle_put", args |-> <<path, body>>]
      [] method = DELETE -> [handler |-> "handle_delete", args |-> <<path>>]
      [] method = PATCH -> [handler |-> "handle_patch", args |-> <<path, body>>]
      [] OTHER -> [handler |-> "handle_method_not_allowed", args |-> <<>>]

\* texts serde_json accepts, within the model
JsonTexts == {EmptyObject}

\* serde_json::from_str(&request.body).ok()
JsonDecode(body) == IF Trim(body) \in JsonTexts THEN Some([json |-> Trim(body)]) ELSE None

\* variant: the body is handed on without validation
DecodeBodyRaw(body) == IF body # <<>> THEN Some([json |-> body]) ELSE None

\* let json_body = if !request.body.is_empty() { ... } else { None }
DecodeBody(body) == IF body # <<>> THEN JsonDecode(body) ELSE None

NoHeaders == [n \in {} |-> <<>>]

\* what a route handler may return
HandlerResponses(handler) ==
    IF handler = "handle_method_not_allowed"
    THEN {[status_line |-> Status405, headers |-> NoHeaders, body |-> <<>>]}
    ELSE {[status_line |-> Status200, headers |-> NoHeaders, body |-> <<>>],
          [status_line |-> Status200,
           headers |-> MapInsert(NoHeaders, SetCookie, ForeignCookie),
           body |-> OkBody]}

\* variant: the id is left out of the header value
SetCookieValueNoId(id) == SessionIdEq \o PathAttr

\* format!("sessionId={}; Path=/", session_id)
SetCookieValue(id) == SessionIdEq \o id \o PathAttr

\* variant: entry("Set-Cookie").or_insert(...), an existing value is kept
StampCookieIfAbsent(resp, id) ==
    IF SetCookie \in DOMAIN resp.headers THEN resp ELSE
    [resp EXCEPT !.headers = MapInsert(resp.headers, SetCookie, SetCookieValue(id))]

\* response.headers.insert("Set-Cookie", ...)
StampCookie(resp, id) ==
    [resp EXCEPT !.headers = MapInsert(resp.headers, SetCookie, SetCookieValue(id))]

\* the orders in which a HashMap may iterate over its keys
Orders(S) == {o \in [1..Cardinality(S) -> S] : \A i, j \in DOMAIN o : i # j => o[i] # o[j]}

HeaderLine(name, value) == name \o ColonSp \o value

\* Response::to_string: status line, headers, blank line, body, CRLF between
to_string(resp, order) ==
    resp.status_line \o CRLF
      \o Concat([i \in 1..Len(order) |-> HeaderLine(order[i], resp.headers[order[i]]) \o CRLF])
      \o CRLF \o resp.body

\* ------------------------------------------------------------------ inputs
FailingReads == {ReadErr, ReadOk(<<>>), ReadOk(SP \o CRLFCRLF)}

Reads ==
    FailingReads \cup
    {ReadOk(RequestText(GET, RootPath, <<CookieLine(Id1234)>>, <<>>)),
     ReadOk(RequestText(POST, RootPath, <<>>, InvalidJson)),
     ReadOk(RequestText(TRACE, RootPath, <<CookieLine(FreshId(1))>>, <<>>))}

\* the eprintln! of parse_request for a read that does not parse
ParseError(read) ==
    IF ~read.ok THEN "Failed to read from stream"
    ELSE IF HeaderPart(read.bytes) = <<>> THEN "Malformed request: No headers."
    ELSE "Malformed request: No HTTP method."

\* ------------------------------------------------------------------- Init
InitConns ==
    /\ pc = [c \in Conns |-> "Idle"]
    /\ net = [c \in Conns |-> None]
    /\ request = [c \in Conns |-> None]
    /\ pending = [c \in Conns |-> None]
    /\ session_id = [c \in Conns |-> None]
    /\ json_body = [c \in Conns |-> None]
    /\ called = [c \in Conns |-> None]
    /\ response = [c \in Conns |-> None]
    /\ socket = [c \in Conns |-> None]
    /\ send_ok = [c \in Conns |-> None]
    /\ stderr = [c \in Conns |-> <<>>]
    /\ stdout = [c \in Conns |-> <<>>]
    /\ before = [c \in Conns |-> None]
    /\ after = [c \in Conns |-> None]
    /\ trace = [c \in Conns |-> <<"Idle">>]

Init ==
    /\ sessions \in {EmptyStore, TestStore}
    /\ lock = None
    /\ InitConns

\* ---------------------------------------------------------------- actions
Goto(c, to) ==
    /\ pc' = [pc EXCEPT ![c] = to]
    /\ trace' = [trace EXCEPT ![c] = Append(@, to)]

\* the connection source hands over a connection only while the id pool
\* can still serve every connection that may ask for a new id
CanAccept ==
    Cardinality(IdPool \ DOMAIN sessions)
      > Cardinality({d \in Conns : pc[d] \in {"Parsed", "Locked", "Inserting"}})

\* handle, line 17: parse_request reads the socket once and parses
ParseRequest(c, reads) ==
    /\ pc[c] = "Idle"
    /\ CanAccept
    /\ \E read \in reads :
         /\ net' = [net EXCEPT ![c] = Some(read)]
         /\ request' = [request EXCEPT ![c] = parse_request(read)]
         /\ IF parse_request(read) = None
            THEN /\ Goto(c, "Aborted")
                 /\ stderr' = [stderr EXCEPT ![c] = Append(@, ParseError(read))]
            ELSE /\ Goto(c, "Parsed")
                 /\ UNCHANGED stderr
    /\ UNCHANGED <<sessions, lock, pending, session_id, json_body, called, response,
                   socket, send_ok, stdout, before, after>>

\* variant: no mutual exclusion
LockFreeAlways(c) == TRUE

\* Mutex::lock: blocks while another connection holds the mutex
LockFree(c) == lock = None

\* handle, line 19: server.lock().unwrap()
Lock(c) ==
    /\ pc[c] = "Parsed"
    /\ LockFree(c)
    /\ lock' = Some(c)
    /\ before' = [before EXCEPT ![c] = Some(DOMAIN sessions)]
    /\ Goto(c, "Locked")
    /\ UNCHANGED <<sessions, net, request, pending, session_id, json_body, called,
                   response, socket, send_ok, stderr, stdout, after>>

\* handle_cookie: look the cookie up; a known id is returned, otherwise a
\* new id that is not a key of the store is generated
HandleCookieLookup(c) ==
    /\ pc[c] = "Locked"
    /\ IF KnownCookie(Get(request[c]), sessions)
       THEN /\ session_id' = [session_id EXCEPT ![c] = Get(request[c]).cookie]
            /\ Goto(c, "Resolved")
            /\ UNCHANGED pending
       ELSE /\ \E id \in IdPool \ DOMAIN sessions :
                 pending' = [pending EXCEPT ![c] = Some(id)]
            /\ Goto(c, "Inserting")
            /\ UNCHANGED session_id
    /\ UNCHANGED <<sessions, lock, net, request, json_body, called, response,
                   socket, send_ok, stderr, stdout, before, after>>

\* handle_cookie: insert the generated id and return it
HandleCookieInsert(c) ==
    /\ pc[c] = "Inserting"
    /\ sessions' = MapInsert(sessions, Get(pending[c]), DefaultData)
    /\ session_id' = [session_id EXCEPT ![c] = pending[c]]
    /\ Goto(c, "Resolved")
    /\ UNCHANGED <<lock, net, request, pending, json_body, called, response,
                   socket, send_ok, stderr, stdout, before, after>>

\* variant: the guard is not dropped and lives on to the end of the scope
StillHeld(c) == Some(c)

\* the mutex after drop(server_lock)
Released(c) == None

\* handle, line 21: drop(server_lock)
Unlock(c) ==
    /\ pc[c] = "Resolved"
    /\ lock' = Released(c)
    /\ after' = [after EXCEPT ![c] = Some(DOMAIN sessions)]
    /\ Goto(c, "SessionResolved")
    /\ UNCHANGED <<sessions, net, request, pending, session_id, json_body, called,
                   response, socket, send_ok, stderr, stdout, before>>

\* variant: the dispatch comes before the session is resolved
AtDispatchEarly(c) == pc[c] = "Parsed"

\* where handle decodes the body and dispatches
AtDispatch(c) == pc[c] = "SessionResolved"

\* handle, lines 24-38: decode the body, call the route handler
DispatchRequest(c) ==
    /\ AtDispatch(c)
    /\ LET req == Get(request[c])
           body == DecodeBody(req.body)
           call == Dispatch(req.method, req.path, body)
       IN /\ json_body' = [json_body EXCEPT ![c] = body]
          /\ called' = [called EXCEPT ![c] = Some(call)]
          /\ \E r \in HandlerResponses(call.handler) :
               response' = [response EXCEPT ![c] = Some(r)]
    /\ Goto(c, "Dispatched")
    /\ UNCHANGED <<sessions, lock, net, request, pending, session_id, socket, send_ok,
                   stderr, stdout, before, after>>

\* handle, lines 41-48: stamp Set-Cookie, serialize, send_response
SendResponse(c) ==
    /\ pc[c] = "Dispatched"
    /\ LET stamped == StampCookie(Get(response[c]), Get(session_id[c]))
       IN /\ response' = [response EXCEPT ![c] = Some(stamped)]
          /\ \E order \in Orders(DOMAIN stamped.headers), ok \in BOOLEAN :
               /\ socket' = [socket EXCEPT ![c] = Some(to_string(stamped, order))]
               /\ send_ok' = [send_ok EXCEPT ![c] = Some(ok)]
               /\ stderr' = [stderr EXCEPT ![c] =
                               IF ok THEN @ ELSE Append(@, "Failed to send response")]
    /\ Goto(c, "Sent")
    /\ UNCHANGED <<sessions, lock, net, request, pending, session_id, json_body, called,
                   stdout, before, after>>

\* handle, line 52: println!("Sent Response: {}", full_response), and return
LogResponse(c) ==
    /\ pc[c] = "Sent"
    /\ stdout' = [stdout EXCEPT ![c] = Append(@, Get(socket[c]))]
    /\ Goto(c, IF Get(send_ok[c]) THEN "Done" ELSE "Aborted")
    /\ UNCHANGED <<sessions, lock, net, request, pending, session_id, json_body, called,
                   response, socket, send_ok, stderr, before, after>>

Next ==
    \E c \in Conns :
        \/ ParseRequest(c, Reads)
        \/ Lock(c)
        \/ HandleCookieLookup(c)
        \/ HandleCookieInsert(c)
        \/ Unlock(c)
        \/ DispatchRequest(c)
        \/ SendResponse(c)
        \/ LogResponse(c)

Spec == Init /\ [][Next]_vars


\* ------------------------------------------- one connection, many requests
RequestLines ==
    {<<>>, SP \o SP, GET, LowerGet \o SP \o RootPath \o SP \o HTTP11}
      \cup {m \o SP \o p \o SP \o HTTP11 :
              m \in {GET, POST, PUT, DELETE, PATCH, TRACE}, p \in {RootPath, GetPath}}

HeaderLines ==
    {HostLine, CookieLine(Id1234), CookieLine(FreshId(1)), CookieNoEq, CookieTwoEq,
     CookieLower, CookieSpaced}

RECURSIVE SeqsUpTo(_, _)
SeqsUpTo(S, n) ==
    IF n = 0 THEN {<<>>}
    ELSE SeqsUpTo(S, n - 1) \cup {Append(q, x) : q \in SeqsUpTo(S, n - 1), x \in S}

WireText(line, hdrs, term, body) ==
    line \o Concat([i \in 1..Len(hdrs) |-> CRLF \o hdrs[i]]) \o term \o body

\* every request line and body with and without the cookie of the test,
\* and every sequence of header lines on the request line of the test
RichTexts ==
    {WireText(l, h, t, b) :
        l \in RequestLines, h \in {<<>>, <<CookieLine(Id1234)>>},
        t \in {<<>>, CRLFCRLF}, b \in {<<>>, InvalidJson, EmptyObject, TwoPartBody}}
    \cup
    {WireText(GET \o SP \o GetPath \o SP \o HTTP11, h, t, <<>>) :
        h \in SeqsUpTo(HeaderLines, MaxHdrs), t \in {<<>>, CRLF, CRLFCRLF}}

RichReads == {ReadErr} \cup {ReadOk(t) : t \in RichTexts}

NextSeq ==
    \/ ParseRequest(1, RichReads)
    \/ Lock(1)
    \/ HandleCookieLookup(1)
    \/ HandleCookieInsert(1)
    \/ Unlock(1)
    \/ DispatchRequest(1)
    \/ SendResponse(1)
    \/ LogResponse(1)

SpecSeq == Init /\ [][NextSeq]_vars


\* ------------------------------------------------------------------ claims
AllIds == IdPool \cup {Id1234}

\* <<id, text>>: text is a well-formed request with the header
\* Cookie: sessionId=<id>, as it is on the wire
CookieRequests ==
    {<<id, RequestText(m, p, pre \o <<CookieLine(id)>>, b)>> :
        id \in AllIds, m \in {GET, POST, PUT, DELETE, PATCH, TRACE},
        p \in {RootPath, GetPath}, pre \in {<<>>, <<HostLine>>},
        b \in {<<>>, InvalidJson, EmptyObject}}

Carries(c, id) ==
    /\ net[c] # None
    /\ Get(net[c]).ok
    /\ <<id, Get(net[c]).bytes>> \in CookieRequests

Scenario1 == ReadOk(RequestText(GET, RootPath, <<CookieLine(Id1234)>>, <<>>))

\* C1: a request whose Cookie header names a key of the store resolves to
\* exactly that key, and the store has the same keys when the connection
\* drops the lock as when it took it.
C1_KnownCookieResolves ==
    \A c \in Conns : \A id \in AllIds :
        (after[c] # None /\ Carries(c, id) /\ id \in Get(before[c]))
            => /\ session_id[c] = Some(id)
               /\ Get(after[c]) = Get(before[c])
               /\ pending[c] = None

C1_Witness ==
    \E c \in Conns :
        /\ pc[c] = "Done"
        /\ net[c] = Some(Scenario1)
        /\ Id1234 \in Get(before[c])
        /\ session_id[c] = Some(Id1234)

UnknownCookie(c) ==
    \/ Get(request[c]).cookie = None
    \/ Get(Get(request[c]).cookie) \notin Get(before[c])

\* C2: a request with no cookie or a cookie that is not a key of the store
\* adds exactly one entry and returns its id; the id was not a key right
\* before the insertion nor when the connection took the lock.
C2_UnknownCookieCreatesOne ==
    [][\A c \in Conns :
          /\ (pc[c] = "Inserting" /\ pc'[c] = "Resolved")
                => /\ Get(session_id'[c]) \notin DOMAIN sessions
                   /\ DOMAIN sessions' = DOMAIN sessions \cup {Get(session_id'[c])}
          /\ (pc[c] = "Resolved" /\ pc'[c] = "SessionResolved" /\ UnknownCookie(c))
                => /\ Get(session_id[c]) \notin Get(before[c])
                   /\ Get(after'[c]) = Get(before[c]) \cup {Get(session_id[c])}
                   /\ Get(session_id[c]) \in DOMAIN sessions']_vars

C2_Witness ==
    \E c, d \in Conns :
        /\ c # d
        /\ pc[c] = "Dispatched" /\ pc[d] = "SessionResolved"
        /\ Get(request[c]).cookie = None
        /\ Get(request[d]).cookie # None
        /\ UnknownCookie(d)
        /\ session_id[c] # session_id[d]
        /\ {Get(session_id[c]), Get(session_id[d])} \subseteq DOMAIN sessions
        /\ Get(session_id[c]) \notin Get(before[c])
        /\ Get(session_id[d]) \notin Get(before[d])

InCriticalSection == {"Locked", "Inserting", "Resolved"}

\* C3: a connection holds the lock only between taking it and the return
\* of handle_cookie: never while it decodes, dispatches, serializes or
\* writes, so whoever holds the lock is inside the lookup-or-insert.
C3_LockOnlyAroundLookup ==
    /\ \A c \in Conns : pc[c] \notin InCriticalSection => lock # Some(c)
    /\ lock # None => pc[Get(lock)] \in InCriticalSection

C3_Witness ==
    \E c, d \in Conns :
        /\ pc[c] \in {"SessionResolved", "Dispatched", "Sent"}
        /\ pc[d] = "Locked"
        /\ lock = Some(d)

\* the header lines of a serialized response
WrittenHeaders(text) == Tail(Split(HeaderPart(text), CRLF))

C5_SameKnownIdConcurrently ==
    \A c, d \in Conns : \A id \in AllIds :
        (/\ c # d
         /\ Carries(c, id) /\ Carries(d, id)
         /\ after[c] # None /\ after[d] # None
         /\ id \in Get(before[c]) \cap Get(before[d]))
            => /\ session_id[c] = session_id[d]
               /\ session_id[c] = Some(id)
               /\ Get(after[c]) = Get(before[c])
               /\ Get(after[d]) = Get(before[d])
               /\ id \in DOMAIN sessions

C5_Witness ==
    \E c, d \in Conns :
        /\ c # d
        /\ pc[c] = "SessionResolved" /\ pc[d] = "SessionResolved"
        /\ Carries(c, Id1234) /\ Carries(d, Id1234)
        /\ session_id[c] = Some(Id1234) /\ session_id[d] = Some(Id1234)

\* C6: after a read that does not parse the handler is in Aborted, came
\* there directly from Idle, and has not taken the lock, generated an id,
\* called a route handler or written to the socket.
C6_ParseFailureAborts ==
    \A c \in Conns :
        (net[c] # None /\ Get(net[c]) \in FailingReads)
            => /\ trace[c] = <<"Idle", "Aborted">>
               /\ pc[c] = "Aborted"
               /\ request[c] = None
               /\ before[c] = None /\ after[c] = None
               /\ lock # Some(c)
               /\ pending[c] = None /\ session_id[c] = None
               /\ called[c] = None /\ response[c] = None
               /\ socket[c] = None /\ stdout[c] = <<>>

C6_Witness ==
    \E c, d \in Conns :
        /\ net[c] = Some(ReadErr) /\ pc[c] = "Aborted"
        /\ net[d] = Some(ReadOk(SP \o CRLFCRLF)) /\ pc[d] = "Aborted"

\* C7: a read whose text has no \r\n\r\n does not parse.
C7_NoBlankLineFails ==
    \A c \in Conns :
        (net[c] # None /\ Get(net[c]).ok /\ ~Contains(Get(net[c]).bytes, CRLFCRLF))
            => request[c] = None

\* C8: a read of zero bytes does not parse and the handler ends in Aborted.
C8_EmptyReadFails ==
    \A c \in Conns :
        net[c] = Some(ReadOk(<<>>))
            => /\ request[c] = None
               /\ pc[c] = "Aborted"
               /\ stderr[c] = <<"Malformed request: No headers.">>

C8_Witness == \E c \in Conns : net[c] = Some(ReadOk(<<>>)) /\ pc[c] = "Aborted"

IsPrefix(s, t) == Len(s) <= Len(t) /\ SubSeq(t, 1, Len(s)) = s

Resolving == {<<"Locked", "Resolved">>, <<"Locked", "Inserting", "Resolved">>}

CompletePaths ==
    {<<"Idle", "Parsed">> \o r \o <<"SessionResolved", "Dispatched", "Sent", e>> :
        r \in Resolving, e \in {"Done", "Aborted"}}

\* C9: a connection goes through parse, resolve, dispatch, write in this
\* order without skipping or repeating a step; when the response is
\* written the session is resolved, the lock released and the route
\* handler has returned.
C9_FixedOrder ==
    \A c \in Conns :
        /\ \E p \in CompletePaths \cup {<<"Idle", "Aborted">>} : IsPrefix(trace[c], p)
        /\ trace[c][Len(trace[c])] = pc[c]
        /\ pc[c] = "Done" => trace[c] \in CompletePaths
        /\ called[c] # None => (after[c] # None /\ session_id[c] # None)
        /\ socket[c] # None
             => /\ after[c] # None /\ session_id[c] # None /\ lock # Some(c)
                /\ called[c] # None /\ response[c] # None

C9_Witness ==
    \E c \in Conns :
        /\ pc[c] = "Done"
        /\ trace[c] = <<"Idle", "Parsed", "Locked", "Inserting", "Resolved",
                        "SessionResolved", "Dispatched", "Sent", "Done">>
        /\ socket[c] # None

\* C10: the method alone selects the route handler: GET, POST, PUT, DELETE
\* and PATCH have their own, POST, PUT and PATCH are given the decoded
\* body, GET and DELETE only the path, and any other method goes to
\* handle_method_not_allowed.
C10_DispatchByMethod ==
    \A c \in Conns :
        called[c] # None =>
            LET req == Get(request[c])
                call == Get(called[c])
                withBody == <<req.path, DecodeBody(req.body)>>
            IN /\ req.method = GET => call = [handler |-> "handle_get", args |-> <<req.path>>]
               /\ req.method = DELETE
                    => call = [handler |-> "handle_delete", args |-> <<req.path>>]
               /\ req.method = POST => call = [handler |-> "handle_post", args |-> withBody]
               /\ req.method = PUT => call = [handler |-> "handle_put", args |-> withBody]
               /\ req.method = PATCH => call = [handler |-> "handle_patch", args |-> withBody]
               /\ req.method \notin {GET, POST, PUT, DELETE, PATCH}
                    => call = [handler |-> "handle_method_not_allowed", args |-> <<>>]

C10_Witness ==
    \E c \in Conns :
        /\ pc[c] = "Done"
        /\ Get(request[c]).method = LowerGet
        /\ Get(request[c]).cookie # None
        /\ Get(called[c]).handler = "handle_method_not_allowed"

BodyMethods == {POST, PUT, PATCH}

\* C11: a body that does not decode is given to the POST, PUT or PATCH
\* handler as None and the request goes on to the stamp and the write; an
\* empty body is given as None, a body that decodes as its value.
C11_DecodeFailureIsNone ==
    \A c \in Conns :
        (request[c] # None /\ Get(request[c]).method \in BodyMethods)
          => LET req == Get(request[c])
             IN /\ (called[c] # None /\ req.body \in {<<>>, InvalidJson})
                     => /\ json_body[c] = None
                        /\ Get(called[c]).args = <<req.path, None>>
                /\ (called[c] # None /\ req.body = EmptyObject)
                     => Get(called[c]).args = <<req.path, Some([json |-> EmptyObject])>>
                /\ (req.body = InvalidJson /\ pc[c] \in {"Sent", "Done", "Aborted"})
                     => /\ called[c] # None
                        /\ socket[c] # None
                        /\ SetCookie \in DOMAIN Get(response[c]).headers

C11_Witness ==
    \E c \in Conns :
        /\ pc[c] = "Done"
        /\ Get(request[c]).method = POST
        /\ Get(request[c]).body = InvalidJson
        /\ Get(called[c]) = [handler |-> "handle_post", args |-> <<RootPath, None>>]

\* C12: while the only requests handled are the GET request of the test,
\* whose cookie names the session 1234 of the store, once, twice or
\* concurrently, the store is exactly the store before the first of them:
\* same keys, same data.
C12_RepeatedGetKeepsStore ==
    (/\ Id1234 \in DOMAIN sessions
     /\ \A c \in Conns : net[c] = None \/ net[c] = Some(Scenario1))
        => sessions = TestStore

C12_Witness ==
    \E c, d \in Conns :
        /\ c # d
        /\ net[c] = Some(Scenario1) /\ pc[c] = "Done"
        /\ net[d] = Some(Scenario1) /\ pc[d] = "Done"
        /\ session_id[c] = Some(Id1234) /\ session_id[d] = Some(Id1234)
        /\ \A e \in Conns \ {c, d} : net[e] = None
        /\ sessions = TestStore

\* <<method, path, id, body, text>>: text is the well-formed request with
\* this request line, an optional Host header, the header
\* Cookie: sessionId=<id>, and this body
WellFormedRequests ==
    {<<m, p, id, b, RequestText(m, p, pre \o <<CookieLine(id)>>, b)>> :
        m \in {GET, POST, PUT, DELETE, PATCH, TRACE, LowerGet},
        p \in {RootPath, GetPath}, id \in AllIds, pre \in {<<>>, <<HostLine>>},
        b \in {<<>>, InvalidJson, EmptyObject}}

Scenario2 == ReadOk(RequestText(GET, GetPath, <<HostLine, CookieLine(Id1234)>>, <<>>))

\* C13: a well-formed request parses to its first token as method, its
\* second token as path and the value of its Cookie header as cookie,
\* with or without a Host header before the Cookie header.
C13_ParsesWellFormed ==
    \A c \in Conns :
        (net[c] # None /\ Get(net[c]).ok) =>
            \A w \in WellFormedRequests :
                w[5] = Get(net[c]).bytes
                    => /\ request[c] # None
                       /\ Get(request[c]).method = w[1]
                       /\ Get(request[c]).path = w[2]
                       /\ Get(request[c]).cookie = Some(w[3])
                       /\ Get(request[c]).body = w[4]

C13_Witness ==
    \E c \in Conns :
        /\ net[c] = Some(Scenario2)
        /\ pc[c] = "Parsed"
        /\ Get(request[c]).method = GET
        /\ Get(request[c]).path = GetPath
        /\ Get(request[c]).cookie = Some(Id1234)

\* C14: a failed write ends the handler in Aborted with the error reported
\* and one write attempt, and the line that records the serialized
\* response is printed when, and only when, the send succeeded.
C14_LogOnlyOnSuccess ==
    \A c \in Conns :
        (send_ok[c] # None /\ pc[c] \in {"Done", "Aborted"})
            => /\ Cardinality({i \in DOMAIN trace[c] : trace[c][i] = "Sent"}) = 1
               /\ ~Get(send_ok[c])
                    => (pc[c] = "Aborted" /\ stderr[c] = <<"Failed to send response">>)
               /\ stdout[c] = IF Get(send_ok[c]) THEN <<Get(socket[c])>> ELSE <<>>

\* C15: the text is split once, at the first \r\n\r\n: the body of the
\* parsed request is everything after that first marker, later markers
\* and what follows them included.
C15_BodyIsRestAfterFirstMarker ==
    \A c \in Conns :
        (request[c] # None /\ Contains(Get(net[c]).bytes, CRLFCRLF))
            => LET text == Get(net[c]).bytes
               IN Get(request[c]).body
                    = Drop(text, FirstIndex(text, CRLFCRLF) + Len(CRLFCRLF) - 1)

\* C16: the cookie of a parsed request is everything after the first '='
\* of the first Cookie header line, trimmed; a value with an '=' in it is
\* extracted whole.
C16_CookieIsRestAfterFirstEq ==
    \A c \in Conns :
        request[c] # None =>
            LET h == FindCookieHeader(Get(request[c]).headers)
            IN (h # None /\ Contains(Get(h), <<"=">>))
                  => Get(request[c]).cookie
                       = Some(Trim(Drop(Get(h), FirstIndex(Get(h), <<"=">>))))

\* the header lines of the model that begin with the token Cookie
CookieTokenLines ==
    {CookieLine(Id1234), CookieLine(FreshId(1)), CookieNoEq, CookieTwoEq, CookieSpaced}

\* requests whose header lines have no Cookie token
NoCookieTexts ==
    {WireText(GET \o SP \o GetPath \o SP \o HTTP11, h, CRLFCRLF, <<>>) :
        h \in SeqsUpTo({HostLine, CookieLower}, MaxHdrs)}

\* C17: the cookie comes from the first header line that begins with
\* Cookie, in this case, and from no other: a first Cookie line without
\* '=' gives no cookie whatever follows it, a line beginning with cookie
\* never counts, and a request without a matching line parses, with no
\* cookie.
C17_FirstCookieLineOnly ==
    \A c \in Conns :
        /\ (net[c] # None /\ Get(net[c]).ok /\ Get(net[c]).bytes \in NoCookieTexts)
              => (request[c] # None /\ Get(request[c]).cookie = None)
        /\ (request[c] # None
              /\ \A i \in DOMAIN Get(request[c]).headers :
                    Get(request[c]).headers[i] \in HeaderLines)
              => LET hs == Get(request[c]).headers
                     cookie == Get(request[c]).cookie
                     hits == {i \in DOMAIN hs : hs[i] \in CookieTokenLines}
                     first == hs[CHOOSE i \in hits : \A j \in hits : i <= j]
                 IN IF hits = {} THEN cookie = None
                    ELSE /\ Len(cookie) <= 1
                         /\ first = CookieNoEq => cookie = None
                         /\ first = CookieTwoEq => cookie # None
                         /\ first = CookieSpaced => cookie = Some(Id1234)
                         /\ \A id \in AllIds : first = CookieLine(id) => cookie = Some(id)

C17_Witness ==
    \E c \in Conns :
        /\ pc[c] = "Done"
        /\ Get(request[c]).headers = <<CookieNoEq, CookieLine(Id1234)>>
        /\ Get(request[c]).cookie = None
        /\ Id1234 \in Get(before[c])
        /\ session_id[c] # Some(Id1234)

\* C18: no step removes a key of the store; a step that changes the store
\* is the insertion of the connection that holds the lock and adds its
\* one generated id; no connection inserts twice.
C18_StoreOnlyGrows ==
    [][/\ DOMAIN sessions \subseteq DOMAIN sessions'
       /\ sessions' # sessions
            => \E c \in Conns :
                  /\ lock = Some(c) /\ lock' = Some(c)
                  /\ pc[c] = "Inserting" /\ pc'[c] = "Resolved"
                  /\ DOMAIN sessions' = DOMAIN sessions \cup {Get(pending[c])}
                  /\ \A k \in DOMAIN sessions : sessions'[k] = sessions[k]
       /\ \A c \in Conns :
            Cardinality({i \in DOMAIN trace'[c] : trace'[c][i] = "Inserting"}) <= 1]_vars

C18_Witness ==
    /\ DOMAIN sessions = {Id1234, FreshId(1), FreshId(2)}
    /\ sessions[Id1234] = UserData
    /\ \E c, d \in Conns :
          /\ pc[c] = "Done" /\ session_id[c] = Some(FreshId(1))
          /\ pc[d] = "Done" /\ session_id[d] = Some(FreshId(2))

\* ---------------------------------------------------------------- fairness
\* the steps of a handler once handle has read the request: its thread is
\* scheduled again and again, and lock() returns once the mutex is free
Run(c) ==
    \/ Lock(c)
    \/ HandleCookieLookup(c)
    \/ HandleCookieInsert(c)
    \/ Unlock(c)
    \/ DispatchRequest(c)
    \/ SendResponse(c)
    \/ LogResponse(c)

\* a read that fails, a request with the cookie of the test, a request
\* without cookie
FairReads ==
    {ReadErr, ReadOk(RequestText(TRACE, RootPath, <<CookieLine(Id1234)>>, <<>>)),
     ReadOk(RequestText(TRACE, RootPath, <<>>, <<>>))}

NextFair == \E c \in Conns : ParseRequest(c, FairReads) \/ Run(c)

SpecFair == Init /\ [][NextFair]_vars /\ \A c \in Conns : WF_vars(Run(c))

Terminal == {"Done", "Aborted"}

\* C19: under fair scheduling every handler that has started ends in Done
\* or Aborted, so the connections never deadlock on the lock; and Aborted
\* is entered from Idle or from Sent only.
C19_Terminates ==
    /\ \A c \in Conns : (pc[c] # "Idle") ~> (pc[c] \in Terminal)
    /\ [][\A c \in Conns :
            (pc'[c] = "Aborted" /\ pc[c] # "Aborted") => pc[c] \in {"Idle", "Sent"}]_vars

C19_Witness ==
    \E c, d \in Conns :
        /\ pc[c] = "Aborted" /\ send_ok[c] = Some(FALSE)
        /\ pc[d] = "Done" /\ send_ok[d] = Some(TRUE)
        /\ before[c] # None /\ before[d] # None
        /\ lock = None

\* C20: a request that is routed to handle_method_not_allowed, or whose
\* body does not decode, and that carries no known cookie, has its session
\* resolved before the dispatch: one entry is added to the store and the
\* response written carries Set-Cookie for the new id.
C20_SessionWhateverTheDispatch ==
    \A c \in Conns :
        /\ called[c] # None => (session_id[c] # None /\ after[c] # None)
        /\ (/\ socket[c] # None
            /\ UnknownCookie(c)
            /\ \/ Get(called[c]).handler = "handle_method_not_allowed"
               \/ (Get(request[c]).body # <<>> /\ json_body[c] = None))
              => LET id == Get(session_id[c])
                     line == SetCookie \o ColonSp \o SessionIdEq \o id \o PathAttr
                 IN /\ id \notin Get(before[c])
                    /\ Get(after[c]) = Get(before[c]) \cup {id}
                    /\ id \in DOMAIN sessions
                    /\ Get(response[c]).headers[SetCookie] = SessionIdEq \o id \o PathAttr
                    /\ Contains(Get(socket[c]), CRLF \o line \o CRLF)

C20_Witness ==
    \E c \in Conns :
        /\ pc[c] = "Done"
        /\ Get(request[c]).method = TRACE
        /\ Get(request[c]).cookie = None
        /\ Get(request[c]).body = InvalidJson
        /\ Get(called[c]).handler = "handle_method_not_allowed"
        /\ Get(response[c]).status_line = Status405
        /\ Get(session_id[c]) \in DOMAIN sessions \ Get(before[c])

====
